---- MODULE Spec2Model ----
(***************************************************************************)
(* A model of log_monitor.py: the LogMonitor class (construction, file     *)
(* registration, incremental reading, pattern matching, alerting, glob     *)
(* refresh and the monitor loop) together with the external writer that    *)
(* appends to, truncates and removes the watched files.                    *)
(***************************************************************************)
EXTENDS Integers, Sequences, FiniteSets, TLC

(***************************************************************************)
(* Bounds of the model.                                                    *)
(***************************************************************************)
\* Largest total number of bytes held by the watched files at one time.
MaxBytes == 5
\* Largest value of the monotonic clock.
MaxClock == 2
\* Largest number of rules, and longest line, handed to check_patterns.
MaxRules == 3
MaxLineLen == 3
\* Longest pattern list and longest template list handed to the constructor.
MaxPatterns == 2
MaxTemplates == 3

(***************************************************************************)
(* Bytes and characters.  A file holds bytes; read_new_content decodes     *)
(* them as UTF-8.  The byte alphabet has one ASCII letter, the line        *)
(* separator, and the two bytes of one two-byte character: HI is its lead  *)
(* byte and LO its continuation byte.  A lone HI, a lone LO, or an HI not  *)
(* followed by LO is not valid UTF-8.                                      *)
(***************************************************************************)
NL == "\n"
HI == "hi"
LO == "lo"
Bytes == {"a", NL, HI, LO}
\* the decoded two-byte character
EE == "E"

\* The per-call read limit of read_new_content (1024 * 1024 in the source, scaled
\* down so that a backlog larger than the limit is within the model's reach).
CHUNK == 3

Min(x, y) == IF x <= y THEN x ELSE y

\* s[lo..hi] with Python slice clamping: the bytes at 0-based positions lo..hi-1
Slice(s, lo, hi) ==
    IF lo >= Min(hi, Len(s)) THEN << >> ELSE SubSeq(s, lo + 1, Min(hi, Len(s)))

RECURSIVE DecodeFrom(_, _)
\* bytes.decode('utf-8') from 1-based index i on: the characters, or a failure
\* (UnicodeDecodeError) on the first malformed or truncated sequence.
DecodeFrom(bs, i) ==
    IF i > Len(bs) THEN [ok |-> TRUE, s |-> << >>]
    ELSE IF bs[i] = HI
         THEN IF i + 1 <= Len(bs) /\ bs[i + 1] = LO
              THEN LET r == DecodeFrom(bs, i + 2)
                   IN  [ok |-> r.ok, s |-> <<EE>> \o r.s]
              ELSE [ok |-> FALSE, s |-> << >>]
         ELSE IF bs[i] = LO
              THEN [ok |-> FALSE, s |-> << >>]
              ELSE LET r == DecodeFrom(bs, i + 1)
                   IN  [ok |-> r.ok, s |-> <<bs[i]>> \o r.s]

Decode(bs) == DecodeFrom(bs, 1)

RECURSIVE Encode(_)
\* str.encode('utf-8')
Encode(cs) ==
    IF cs = << >> THEN << >>
    ELSE (IF Head(cs) = EE THEN <<HI, LO>> ELSE <<Head(cs)>>) \o Encode(Tail(cs))

RECURSIVE SplitAcc(_, _, _)
SplitAcc(cs, i, seg) ==
    IF i > Len(cs) THEN <<seg>>
    ELSE IF cs[i] = NL THEN <<seg>> \o SplitAcc(cs, i + 1, << >>)
         ELSE SplitAcc(cs, i + 1, Append(seg, cs[i]))

\* str.split('\n'): always at least one segment
Split(cs) == SplitAcc(cs, 1, << >>)

RECURSIVE Join(_)
\* '\n'.join(lines)
Join(lines) ==
    IF lines = << >> THEN << >>
    ELSE IF Len(lines) = 1 THEN lines[1]
         ELSE lines[1] \o <<NL>> \o Join(Tail(lines))

EndsWithNL(cs) == Len(cs) > 0 /\ cs[Len(cs)] = NL

\* ParseChunk with the offset moved past the whole chunk, partial line included.
ParseChunkWholeChunk(raw, last_position) ==
    LET d == Decode(raw)
        content == d.s
        lines == Split(content)
    IN  IF ~d.ok
        THEN [raised |-> TRUE, new_lines |-> << >>, position |-> last_position]
        ELSE [raised |-> FALSE,
              new_lines |-> SubSeq(lines, 1, Len(lines) - 1),
              position |-> last_position + Len(raw)]

\* The outcome of lines 188-201 of read_new_content on the bytes read: whether it
\* raised (the decode failed), the lines it returns, and the new offset.
ParseChunk(raw, last_position) ==
    LET d == Decode(raw)
        content == d.s
    IN  IF ~d.ok
        THEN [raised |-> TRUE, new_lines |-> << >>, position |-> last_position]
        ELSE IF EndsWithNL(content)
             THEN [raised |-> FALSE,
                   new_lines |-> Split(SubSeq(content, 1, Len(content) - 1)),
                   position |-> last_position + Len(raw)]
             ELSE LET lines == Split(content)
                  IN  IF Len(lines) > 1
                      THEN LET complete == SubSeq(lines, 1, Len(lines) - 1)
                               last_complete_line == Join(complete) \o <<NL>>
                           IN  [raised |-> FALSE, new_lines |-> complete,
                                position |-> last_position
                                             + Len(Encode(last_complete_line))]
                      ELSE [raised |-> FALSE, new_lines |-> << >>,
                            position |-> last_position]

(***************************************************************************)
(* Paths.  The constructor and glob expansion hand path strings to         *)
(* _register_file, which resolves them with os.path.abspath; the file      *)
(* system and the tracking dictionaries are keyed by absolute path.        *)
(***************************************************************************)
PA == "/w/a.log"
PB == "/w/b.log"
Paths == {PA, PB}

\* os.path.abspath with the working directory /w
AbsPath(arg) ==
    CASE arg = "a.log"   -> PA
      [] arg = "./a.log" -> PA
      [] arg = "b.log"   -> PB
      [] OTHER           -> arg

\* os.path.basename
Basename(path) ==
    CASE path = PA -> "a.log"
      [] path = PB -> "b.log"
      [] OTHER     -> path

(***************************************************************************)
(* Regular expressions.  The pattern strings of the model and what         *)
(* re.compile makes of each: a pattern that finds a literal anywhere in    *)
(* the line, with or without a named group around it, or a re.error.       *)
(***************************************************************************)
\* Compile for an engine that accepts every pattern string.
CompileLenient(pattern_str) ==
    [valid |-> TRUE, lit |-> <<"a">>, group |-> ""]

Compile(pattern_str) ==
    CASE pattern_str = "a"        -> [valid |-> TRUE, lit |-> <<"a">>, group |-> ""]
      [] pattern_str = "E"        -> [valid |-> TRUE, lit |-> <<EE>>, group |-> ""]
      [] pattern_str = "aa"       -> [valid |-> TRUE, lit |-> <<"a", "a">>, group |-> ""]
      [] pattern_str = "(?P<g>a)" -> [valid |-> TRUE, lit |-> <<"a">>, group |-> "g"]
      [] OTHER                    -> [valid |-> FALSE, lit |-> << >>, group |-> ""]

\* 1-based positions at which lit occurs in line
Occurrences(lit, line) ==
    {i \in 1..(Len(line) - Len(lit) + 1) : SubSeq(line, i, i + Len(lit) - 1) = lit}

SetMin(S) == CHOOSE x \in S : \A y \in S : x <= y

NoMatch == [found |-> FALSE, start |-> 0, groupdict |-> << >>]

\* compiled.search(line): the leftmost occurrence and the named groups, or None
Search(compiled, line) ==
    LET occ == Occurrences(compiled.lit, line)
    IN  IF occ = {} THEN NoMatch
        ELSE [found |-> TRUE, start |-> SetMin(occ),
              groupdict |-> IF compiled.group = "" THEN << >>
                            ELSE [g \in {compiled.group} |-> compiled.lit]]

RECURSIVE CheckFrom(_, _, _)
CheckFrom(pattern_configs, line, i) ==
    IF i > Len(pattern_configs) THEN << >>
    ELSE LET match_obj == Search(pattern_configs[i].pattern, line)
         IN  (IF match_obj.found
              THEN <<[rule |-> i, pattern_config |-> pattern_configs[i],
                      match_obj |-> match_obj]>>
              ELSE << >>) \o CheckFrom(pattern_configs, line, i + 1)

\* check_patterns with the matches in reverse rule order.
check_patterns_reversed(pattern_configs, line) ==
    LET all == CheckFrom(pattern_configs, line, 1)
    IN  [k \in 1..Len(all) |-> all[Len(all) + 1 - k]]

\* check_patterns that stops at the first rule that matches.
check_patterns_first_of(pattern_configs, line) ==
    LET all == CheckFrom(pattern_configs, line, 1)
    IN  IF all = << >> THEN << >> ELSE <<Head(all)>>

\* LogMonitor.check_patterns
check_patterns(pattern_configs, line) == CheckFrom(pattern_configs, line, 1)

(***************************************************************************)
(* Templates.  str.format looks each replacement field up in the keyword   *)
(* arguments and raises KeyError for a name that is not among them.        *)
(***************************************************************************)
Fields(template) ==
    CASE template = "{filename}:{match}" -> <<"filename", "match">>
      [] template = "{line_number}"      -> <<"line_number">>
      [] template = "{g}"                -> <<"g">>
      [] template = "{code}"             -> <<"code">>
      [] OTHER                           -> << >>

Whitespace == {" ", NL}

RECURSIVE LStrip(_)
LStrip(cs) == IF cs # << >> /\ Head(cs) \in Whitespace THEN LStrip(Tail(cs)) ELSE cs

RECURSIVE RStrip(_)
RStrip(cs) ==
    IF cs # << >> /\ cs[Len(cs)] \in Whitespace
    THEN RStrip(SubSeq(cs, 1, Len(cs) - 1)) ELSE cs

\* str.strip()
Strip(cs) == RStrip(LStrip(cs))

\* the template_vars of alert: the three built-ins, then the match's named groups
TemplateVars(filename, line_number, line, match_obj) ==
    LET groups == DOMAIN match_obj.groupdict
    IN  [k \in {"filename", "line_number", "match"} \cup groups |->
            IF k \in groups THEN match_obj.groupdict[k]
            ELSE IF k = "filename" THEN Basename(filename)
            ELSE IF k = "line_number" THEN line_number
            ELSE Strip(line)]

\* pattern_config['template'].format(**template_vars)
Format(template, template_vars) ==
    LET fields == Fields(template)
    IN  IF \E i \in 1..Len(fields) : fields[i] \notin DOMAIN template_vars
        THEN [raised |-> TRUE, text |-> << >>]
        ELSE [raised |-> FALSE,
              text |-> [i \in 1..Len(fields) |-> template_vars[fields[i]]]]

(***************************************************************************)
(* Constructor arguments.  An optional list argument is either None or a   *)
(* list.                                                                   *)
(***************************************************************************)
None == [is_none |-> TRUE, v |-> << >>]
Some(list) == [is_none |-> FALSE, v |-> list]

\* `x or []`
OrEmpty(opt) == IF opt.is_none THEN << >> ELSE opt.v

\* what a glob pattern can match (glob expansion is a black box yielding paths)
GlobMatches(pattern) ==
    CASE pattern = "*.log"  -> {PA, PB}
      [] pattern = "b*.log" -> {PB}
      [] OTHER              -> {}

VARIABLES
    fs,                    \* the file system: absolute path -> [kind, data]
    clock,                 \* the value time.monotonic() returns now
    cfg,                   \* the arguments of LogMonitor(...), the environment,
                           \* and what the program does with the monitor
    pc,                    \* where the program is
    error,                 \* the exception that ended the constructor or the loop
    files,                 \* self.files
    file_positions,        \* self.file_positions
    file_sizes,            \* self.file_sizes
    pattern_configs,       \* self.pattern_configs
    next_pattern_refresh,  \* self.next_pattern_refresh
    todo,                  \* monitor_files: the files of this cycle still to read
    cur,                   \* monitor_files / read_new_content: file_path
    rd,                    \* read_new_content: current_size, last_position, ...
    new_lines,             \* the lines the last read_new_content call returned
    line_num,              \* monitor_files: index of the line being processed
    matching,              \* monitor_files: matches of that line not yet alerted
    reg,                   \* history: each tracked path's state when registered
    grown,                 \* history: the path has only grown since registered
    returned,              \* history: the lines returned for the path while it
                           \* has only grown
    alerts,                \* history: the notifications attempted, in order
    touched                \* history: the paths the monitor has examined

vars == <<fs, clock, cfg, pc, error, files, file_positions, file_sizes,
          pattern_configs, next_pattern_refresh, todo, cur, rd, new_lines,
          line_num, matching, reg, grown, returned, alerts, touched>>

monitor_vars == <<files, file_positions, file_sizes, pattern_configs,
                  next_pattern_refresh>>
loop_vars == <<todo, cur, rd, new_lines, line_num, matching>>

\* self.pattern_specs, self.poll_interval and self.pattern_refresh_interval are
\* set once by __init__ from the arguments.  Times are counted in units of the
\* poll interval's floor.
pattern_specs == OrEmpty(cfg.pattern_specs)
poll_interval == IF cfg.poll_interval >= 1 THEN cfg.poll_interval ELSE 1
pattern_refresh_interval ==
    IF cfg.pattern_refresh_interval > 0 THEN cfg.pattern_refresh_interval
    ELSE poll_interval

Exists(path) == fs[path].kind # "none"
Size(path) == Len(fs[path].data)
TotalBytes == Size(PA) + Size(PB)

NoRead == [current_size |-> 0, last_position |-> 0, bytes_to_read |-> 0,
           raw |-> << >>]
NoError == [type |-> "", index |-> 0, at |-> ""]

\* f with key k set to v (a dict assignment)
Put(f, k, v) == [q \in DOMAIN f \cup {k} |-> IF q = k THEN v ELSE f[q]]

(***************************************************************************)
(* _register_file, on the tracking state t = [files, pos, sizes].          *)
(***************************************************************************)
\* RegisteredSize for a monitor that starts every file at its beginning.
RegisteredSizeFromStart(abs_path) == 0

\* Lines 95-102: the offset and size recorded for a new path.
RegisteredSize(abs_path) == IF Exists(abs_path) THEN Size(abs_path) ELSE 0

\* register_file without the early return of lines 89-90.
register_file_again(t, file_path) ==
    LET abs_path == AbsPath(file_path)
    IN  [files |-> IF \E i \in 1..Len(t.files) : t.files[i] = abs_path
                   THEN t.files ELSE Append(t.files, abs_path),
         pos   |-> Put(t.pos, abs_path, RegisteredSize(abs_path)),
         sizes |-> Put(t.sizes, abs_path, RegisteredSize(abs_path))]

register_file(t, file_path) ==
    LET abs_path == AbsPath(file_path)
    IN  IF abs_path \in DOMAIN t.pos THEN t
        ELSE [files |-> IF \E i \in 1..Len(t.files) : t.files[i] = abs_path
                        THEN t.files ELSE Append(t.files, abs_path),
              pos   |-> Put(t.pos, abs_path, RegisteredSize(abs_path)),
              sizes |-> Put(t.sizes, abs_path, RegisteredSize(abs_path))]

RECURSIVE RegisterAll(_, _)
RegisterAll(t, paths) ==
    IF paths = << >> THEN t
    ELSE RegisterAll(register_file(t, Head(paths)), Tail(paths))

\* the sequences that enumerate the set S
Orderings(S) ==
    {q \in [1..Cardinality(S) -> S] : \A x \in S : \E i \in DOMAIN q : q[i] = x}

\* IsDir for a refresh that does not tell directories from files.
IsDirNever(path) == FALSE

IsDir(path) == fs[path].kind = "dir"

RECURSIVE MatchLists(_)
\* What the loops of lines 248-254 can hand to _register_file: for each glob in
\* turn, the existing paths it matches that are not directories, in any order.
MatchLists(specs) ==
    IF specs = << >> THEN {<< >>}
    ELSE LET here == {p \in GlobMatches(Head(specs).pattern) :
                         Exists(p) /\ ~IsDir(p)}
         IN  {a \o b : a \in Orderings(here), b \in MatchLists(Tail(specs))}

Tracking == [files |-> files, pos |-> file_positions, sizes |-> file_sizes]

\* The history kept for a path when it enters file_positions: whether the file
\* existed, and the bytes it held.
RegNote(t) ==
    [p \in DOMAIN t.pos |->
        IF p \in DOMAIN file_positions THEN reg[p]
        ELSE [existed |-> Exists(p), size |-> Size(p)]]

\* RefreshOutcomes without the deadline test of line 245.
RefreshOutcomesUngated(t, deadline, force) ==
    IF pattern_specs = << >> THEN {[t |-> t, deadline |-> deadline]}
    ELSE {[t |-> RegisterAll(t, ml), deadline |-> clock + pattern_refresh_interval] :
             ml \in MatchLists(pattern_specs)}

\* refresh_patterns: the tracking state and deadline it can leave
RefreshOutcomes(t, deadline, force) ==
    IF pattern_specs = << >> THEN {[t |-> t, deadline |-> deadline]}
    ELSE IF ~force /\ clock < deadline THEN {[t |-> t, deadline |-> deadline]}
    ELSE {[t |-> RegisterAll(t, ml), deadline |-> clock + pattern_refresh_interval] :
             ml \in MatchLists(pattern_specs)}

(***************************************************************************)
(* LogMonitor.__init__                                                     *)
(***************************************************************************)
RECURSIVE BuildRules(_, _, _, _)
\* Lines 64-77: the rules, or the first exception and the index that raised it.
BuildRules(regex_patterns, tts_templates, i, acc) ==
    IF i > Len(regex_patterns) THEN [error |-> "", at |-> "", index |-> 0, rules |-> acc]
    ELSE LET compiled_pattern == Compile(regex_patterns[i])
         IN  IF ~compiled_pattern.valid
             THEN [error |-> "ValueError", at |-> "compile", index |-> i, rules |-> acc]
             ELSE IF tts_templates.is_none
             THEN [error |-> "TypeError", at |-> "template", index |-> i, rules |-> acc]
             ELSE IF i > Len(tts_templates.v)
             THEN [error |-> "IndexError", at |-> "template", index |-> i, rules |-> acc]
             ELSE BuildRules(regex_patterns, tts_templates, i + 1,
                     Append(acc, [pattern |-> compiled_pattern,
                                  template |-> tts_templates.v[i],
                                  pattern_str |-> regex_patterns[i]]))

NewTracking == [files |-> << >>, pos |-> << >>, sizes |-> << >>]

\* The whole of __init__.  When it raises, no monitor exists; otherwise the
\* program goes on to monitor_files (main) or calls the methods itself.
Construct ==
    /\ pc = "new"
    /\ LET built == BuildRules(OrEmpty(cfg.regex_patterns), cfg.tts_templates,
                               1, << >>)
       IN  IF built.error # ""
           THEN /\ pc' = "ctor_error"
                /\ error' = [type |-> built.error, index |-> built.index,
                             at |-> built.at]
                /\ next_pattern_refresh' = clock
                /\ UNCHANGED <<files, file_positions, file_sizes, pattern_configs,
                               reg, touched>>
           ELSE \E out \in RefreshOutcomes(RegisterAll(NewTracking, cfg.files),
                                           clock, TRUE) :
                /\ pc' = IF cfg.driver = "monitor_files" THEN "refresh" ELSE "idle"
                /\ pattern_configs' = built.rules
                /\ files' = out.t.files
                /\ file_positions' = out.t.pos
                /\ file_sizes' = out.t.sizes
                /\ next_pattern_refresh' = out.deadline
                /\ reg' = RegNote(out.t)
                /\ touched' = touched \cup DOMAIN out.t.pos
                /\ error' = error
    /\ UNCHANGED <<fs, clock, cfg, loop_vars, grown, returned, alerts>>

(***************************************************************************)
(* The external writer and the clock.  The writer creates, appends to,     *)
(* truncates and removes the watched files at any moment, also between two *)
(* steps of the monitor.  What it did before the monitor was constructed   *)
(* is the initial state of the file system; its steps are followed while   *)
(* the program lives.                                                      *)
(***************************************************************************)
Live == pc \notin {"new", "ctor_error", "crashed", "stopped"}

Create(p) ==
    /\ Live
    /\ fs[p].kind = "none"
    /\ fs' = [fs EXCEPT ![p] = [kind |-> "file", data |-> << >>]]
    /\ UNCHANGED <<clock, cfg, pc, error, monitor_vars, loop_vars, reg, grown,
                   returned, alerts, touched>>

AppendBytes(p, bs) ==
    /\ Live
    /\ fs[p].kind = "file"
    /\ TotalBytes + Len(bs) <= MaxBytes
    /\ fs' = [fs EXCEPT ![p].data = @ \o bs]
    /\ UNCHANGED <<clock, cfg, pc, error, monitor_vars, loop_vars, reg, grown,
                   returned, alerts, touched>>

TruncateTo(p, n) ==
    /\ Live
    /\ fs[p].kind = "file"
    /\ n < Size(p)
    /\ fs' = [fs EXCEPT ![p].data = SubSeq(@, 1, n)]
    /\ grown' = [grown EXCEPT ![p] = FALSE]
    /\ returned' = [returned EXCEPT ![p] = << >>]
    /\ UNCHANGED <<clock, cfg, pc, error, monitor_vars, loop_vars, reg, alerts,
                   touched>>

Delete(p) ==
    /\ Live
    /\ fs[p].kind = "file"
    /\ fs' = [fs EXCEPT ![p] = [kind |-> "none", data |-> << >>]]
    /\ grown' = [grown EXCEPT ![p] = FALSE]
    /\ returned' = [returned EXCEPT ![p] = << >>]
    /\ UNCHANGED <<clock, cfg, pc, error, monitor_vars, loop_vars, reg, alerts,
                   touched>>

\* Time passes.  The program reads the clock only in refresh_patterns, which
\* monitor_files calls right after its sleep: the time a cycle takes is counted
\* with the sleep that ends it.
Tick ==
    /\ pc = "sleep"
    /\ clock < MaxClock
    /\ clock' = clock + 1
    /\ UNCHANGED <<fs, cfg, pc, error, monitor_vars, loop_vars, reg, grown,
                   returned, alerts, touched>>

(***************************************************************************)
(* read_new_content, one step at a time: the existence check, the stat,    *)
(* the read and the update of the offset.                                  *)
(***************************************************************************)
\* The program calls read_new_content(p) itself (as the tests do).
CallRead(p) ==
    /\ pc = "idle"
    /\ p \in DOMAIN file_positions
    /\ pc' = "rd_exists"
    /\ cur' = p
    /\ new_lines' = << >>
    /\ UNCHANGED <<fs, clock, cfg, error, monitor_vars, todo, rd, line_num,
                   matching, reg, grown, returned, alerts, touched>>

\* The program calls check_patterns(line) itself (as the tests do).
CallCheck(line) ==
    /\ pc = "idle"
    /\ new_lines' = <<line>>
    /\ line_num' = 1
    /\ matching' = check_patterns(pattern_configs, line)
    /\ UNCHANGED <<fs, clock, cfg, pc, error, monitor_vars, todo, cur, rd, reg,
                   grown, returned, alerts, touched>>

\* read_new_content returns lines: to line 224 of monitor_files, where the for
\* loop of line 226 starts, or to the caller.
Return(lines) ==
    /\ pc' = IF cfg.driver = "monitor_files" THEN "lines" ELSE "idle"
    /\ new_lines' = lines
    /\ line_num' = 1
    /\ rd' = NoRead
    /\ returned' = [returned EXCEPT ![cur] = IF grown[cur] THEN @ \o lines ELSE @]

\* Lines 171-172.
RdExists ==
    /\ pc = "rd_exists"
    /\ IF ~Exists(cur)
       THEN /\ Return(<< >>)
            /\ UNCHANGED touched
       ELSE /\ pc' = "rd_stat"
            /\ touched' = touched \cup {cur}
            /\ UNCHANGED <<rd, new_lines, line_num, returned>>
    /\ UNCHANGED <<fs, clock, cfg, error, monitor_vars, todo, cur, matching,
                   reg, grown, alerts>>

\* BytesToRead without the per-call limit.
BytesToReadUncapped(current_size, last_position) ==
    current_size - last_position

\* BytesToRead without the size the stat observed.
BytesToReadIgnoresSize(current_size, last_position) == CHUNK

\* Line 182.
BytesToRead(current_size, last_position) ==
    Min(current_size - last_position, CHUNK)

\* RdStat without the comparison of lines 176-179.
RdStatReadsAnyway ==
    /\ pc = "rd_stat"
    /\ IF ~Exists(cur)
       THEN Return(<< >>)
       ELSE /\ pc' = "rd_read"
            /\ rd' = [current_size |-> Size(cur),
                      last_position |-> file_positions[cur],
                      bytes_to_read |->
                          BytesToRead(Size(cur), file_positions[cur]),
                      raw |-> << >>]
            /\ UNCHANGED <<new_lines, line_num, returned>>
    /\ UNCHANGED <<fs, clock, cfg, error, monitor_vars, todo, cur, matching,
                   reg, grown, alerts, touched>>

\* Lines 174-182.  os.stat raises when the file was removed after line 171, and
\* the except clause of line 203 returns [].
RdStat ==
    /\ pc = "rd_stat"
    /\ IF ~Exists(cur)
       THEN Return(<< >>)
       ELSE LET current_size == Size(cur)
                last_position == file_positions[cur]
            IN  IF current_size <= last_position
                THEN Return(<< >>)
                ELSE /\ pc' = "rd_read"
                     /\ rd' = [current_size |-> current_size,
                               last_position |-> last_position,
                               bytes_to_read |->
                                   BytesToRead(current_size, last_position),
                               raw |-> << >>]
                     /\ UNCHANGED <<new_lines, line_num, returned>>
    /\ UNCHANGED <<fs, clock, cfg, error, monitor_vars, todo, cur, matching,
                   reg, grown, alerts, touched>>

\* Lines 184-186: open, seek, read.  open raises when the file was removed after
\* the stat, and line 203 returns [].
RdRead ==
    /\ pc = "rd_read"
    /\ IF Exists(cur)
       THEN /\ pc' = "rd_update"
            /\ rd' = [rd EXCEPT !.raw = Slice(fs[cur].data, rd.last_position,
                                              rd.last_position + rd.bytes_to_read)]
            /\ UNCHANGED <<new_lines, line_num, returned>>
       ELSE Return(<< >>)
    /\ UNCHANGED <<fs, clock, cfg, error, monitor_vars, todo, cur, matching,
                   reg, grown, alerts, touched>>

\* RdReadFails that gives the unread bytes up: the offset jumps to the size.
RdReadFailsSkipsAhead ==
    /\ pc = "rd_read"
    /\ Return(<< >>)
    /\ file_positions' = [file_positions EXCEPT ![cur] = rd.current_size]
    /\ UNCHANGED <<fs, clock, cfg, error, files, file_sizes, pattern_configs,
                   next_pattern_refresh, todo, cur, matching, reg, grown, alerts,
                   touched>>

\* Lines 184-186 when open, seek or read raises OSError for another reason (a
\* permission error, an I/O error): line 203 returns [].
RdReadFails ==
    /\ pc = "rd_read"
    /\ Return(<< >>)
    /\ UNCHANGED <<fs, clock, cfg, error, monitor_vars, todo, cur, matching,
                   reg, grown, alerts, touched>>

\* Lines 188-201: decode, split, move the offset, record the size, return.
RdUpdate ==
    /\ pc = "rd_update"
    /\ LET r == ParseChunk(rd.raw, rd.last_position)
       IN  IF r.raised
           THEN /\ Return(<< >>)
                /\ UNCHANGED <<file_positions, file_sizes>>
           ELSE /\ Return(r.new_lines)
                /\ file_positions' = [file_positions EXCEPT ![cur] = r.position]
                /\ file_sizes' = [file_sizes EXCEPT ![cur] = rd.current_size]
    /\ UNCHANGED <<fs, clock, cfg, error, files, pattern_configs,
                   next_pattern_refresh, todo, cur, matching, reg, grown, alerts,
                   touched>>

ReadStep ==
    \/ RdExists
    \/ RdStat
    \/ RdRead
    \/ RdUpdate

(***************************************************************************)
(* LogMonitor.monitor_files, one step at a time.                           *)
(***************************************************************************)
Running ==
    pc \in {"refresh", "next_file", "rd_exists", "rd_stat", "rd_read",
            "rd_update", "lines", "alert", "sleep"}

\* list(self.file_positions.keys()): the keys in insertion order, which is the
\* order of self.files (both are extended together by _register_file)
Keys(t) == t.files

\* Line 221, and the snapshot of the keys taken by line 223.
RefreshStep ==
    /\ pc = "refresh"
    /\ \E out \in RefreshOutcomes(Tracking, next_pattern_refresh, FALSE) :
        /\ files' = out.t.files
        /\ file_positions' = out.t.pos
        /\ file_sizes' = out.t.sizes
        /\ next_pattern_refresh' = out.deadline
        /\ reg' = RegNote(out.t)
        /\ grown' = [p \in Paths |->
                        IF p \in DOMAIN file_positions THEN grown[p] ELSE TRUE]
        /\ touched' = touched \cup DOMAIN out.t.pos
        /\ todo' = Keys(out.t)
    /\ pc' = "next_file"
    /\ UNCHANGED <<fs, clock, cfg, error, pattern_configs, cur, rd, new_lines,
                   line_num, matching, returned, alerts>>

\* Line 223: the next file of the cycle, or line 234 when there is none left.
NextFile ==
    /\ pc = "next_file"
    /\ IF todo = << >>
       THEN /\ pc' = "sleep"
            /\ UNCHANGED <<todo, cur>>
       ELSE /\ pc' = "rd_exists"
            /\ cur' = Head(todo)
            /\ todo' = Tail(todo)
    /\ new_lines' = << >>
    /\ UNCHANGED <<fs, clock, cfg, error, monitor_vars, rd, line_num,
                   matching, reg, grown, returned, alerts, touched>>

\* Lines 226-228: the next line; blank lines are skipped.
NextLine ==
    /\ pc = "lines"
    /\ IF line_num > Len(new_lines)
       THEN /\ pc' = "next_file"
            /\ UNCHANGED <<line_num, matching>>
       ELSE LET line == new_lines[line_num]
                matching_patterns ==
                    IF Strip(line) # << >>
                    THEN check_patterns(pattern_configs, line) ELSE << >>
            IN  IF matching_patterns = << >>
                THEN /\ pc' = "lines"
                     /\ line_num' = line_num + 1
                     /\ UNCHANGED matching
                ELSE /\ pc' = "alert"
                     /\ matching' = matching_patterns
                     /\ UNCHANGED line_num
    /\ UNCHANGED <<fs, clock, cfg, error, monitor_vars, todo, cur, rd, new_lines,
                   reg, grown, returned, alerts, touched>>

\* After the alert of the last match of a line, the next line.
AfterAlert ==
    IF Len(matching) > 1
    THEN /\ pc' = "alert"
         /\ matching' = Tail(matching)
         /\ UNCHANGED line_num
    ELSE /\ pc' = "lines"
         /\ matching' = << >>
         /\ line_num' = line_num + 1

\* An exception leaves monitor_files: its try has only `except KeyboardInterrupt`.
Crash(type, at) ==
    /\ pc' = "crashed"
    /\ error' = [type |-> type, index |-> 0, at |-> at]

\* send_api_notification: what requests.post can answer
Responses == {"200", "500", "exception"}

\* Lines 229-232 with alert (136-156) and send_api_notification (104-134) for the
\* first match not yet alerted.
Alert ==
    /\ pc = "alert"
    /\ LET m == Head(matching)
           line == new_lines[line_num]
           line_number == file_positions[cur] + line_num
           \* history: the byte position at which the line starts, the offset
           \* standing just after the last line of new_lines
           start == file_positions[cur]
                      - Len(Encode(Join(SubSeq(new_lines, line_num,
                                               Len(new_lines))) \o <<NL>>))
           tts_message == Format(m.pattern_config.template,
                              TemplateVars(cur, line_number, line, m.match_obj))
       IN  IF tts_message.raised
           THEN /\ Crash("KeyError", "format")
                /\ UNCHANGED <<line_num, matching, alerts>>
           ELSE IF ~cfg.environ
           THEN /\ Crash("KeyError", "environ")
                /\ UNCHANGED <<line_num, matching, alerts>>
           ELSE \E response \in Responses :
                /\ alerts' = Append(alerts,
                       [path |-> cur, line_number |-> line_number, line |-> line,
                        start |-> start,
                        rule |-> m.rule, text |-> tts_message.text,
                        sent |-> response = "200"])
                /\ AfterAlert
                /\ UNCHANGED error
    /\ UNCHANGED <<fs, clock, cfg, monitor_vars, todo, cur, rd, new_lines, reg,
                   grown, returned, touched>>

\* Line 234.
Sleep ==
    /\ pc = "sleep"
    /\ pc' = "refresh"
    /\ UNCHANGED <<fs, clock, cfg, error, monitor_vars, loop_vars, reg, grown,
                   returned, alerts, touched>>

\* Lines 236-237: KeyboardInterrupt is raised wherever the loop happens to be.
Interrupt ==
    /\ cfg.driver = "monitor_files"
    /\ Running
    /\ pc' = "stopped"
    /\ UNCHANGED <<fs, clock, cfg, error, monitor_vars, loop_vars, reg, grown,
                   returned, alerts, touched>>

LoopStep ==
    \/ RefreshStep
    \/ NextFile
    \/ NextLine
    \/ Alert
    \/ Sleep

(***************************************************************************)
(* Configurations and initial states.                                      *)
(***************************************************************************)
\* two rules that match lines holding "a", templates that format
GoodRules == [regex_patterns |-> Some(<<"a", "(?P<g>a)">>),
              tts_templates |-> Some(<<"{filename}:{match}", "{g}">>)]
\* the second rule's template names a group its pattern does not define
BadTemplateRules == [regex_patterns |-> Some(<<"a", "E">>),
                     tts_templates |-> Some(<<"{line_number}", "{code}">>)]

Config(file_args, rules, globs, environ, driver) ==
    [files |-> file_args, regex_patterns |-> rules.regex_patterns,
     tts_templates |-> rules.tts_templates, pattern_specs |-> globs,
     poll_interval |-> 1, pattern_refresh_interval |-> 2, environ |-> environ,
     driver |-> driver]

Absent == [kind |-> "none", data |-> << >>]
File(data) == [kind |-> "file", data |-> data]

InitWith(configs, worlds) ==
    /\ cfg \in configs
    /\ fs \in worlds
    /\ clock = 0
    /\ pc = "new"
    /\ error = NoError
    /\ files = << >>
    /\ file_positions = << >>
    /\ file_sizes = << >>
    /\ pattern_configs = << >>
    /\ next_pattern_refresh = 0
    /\ todo = << >>
    /\ cur = PA
    /\ rd = NoRead
    /\ new_lines = << >>
    /\ line_num = 1
    /\ matching = << >>
    /\ reg = << >>
    /\ grown = [p \in Paths |-> TRUE]
    /\ returned = [p \in Paths |-> << >>]
    /\ alerts = << >>
    /\ touched = {}

(***************************************************************************)
(* Spec: one watched file, a.log, named literally.  The program calls      *)
(* read_new_content again and again; the writer writes any bytes, one at a *)
(* time, between any two steps of a call, and never truncates or removes   *)
(* the file.                                                               *)
(***************************************************************************)
\* a.log before construction: no file, an empty file, a file ending in a
\* partial line, in a complete line, or in the first byte of a character
OneFileWorlds ==
    {[p \in Paths |-> IF p = PA THEN f ELSE Absent] :
        f \in {Absent, File(<< >>), File(<<"a">>), File(<<"a", NL>>),
               File(<<HI>>)}}

Init ==
    InitWith({Config(<<"a.log">>, GoodRules, None, TRUE, "calls")}, OneFileWorlds)

Writer ==
    \/ Create(PA)
    \/ \E b \in Bytes : AppendBytes(PA, <<b>>)

Next ==
    \/ Construct
    \/ CallRead(PA)
    \/ ReadStep
    \/ RdReadFails
    \/ Writer

Spec == Init /\ [][Next]_vars

(***************************************************************************)
(* SpecDrain: Spec without I/O errors, the program calling read_new_content *)
(* forever.  The writer stops at the latest when the file is full.         *)
(***************************************************************************)
NextDrain ==
    \/ Construct
    \/ CallRead(PA)
    \/ ReadStep
    \/ Writer

SpecDrain ==
    Init /\ [][NextDrain]_vars /\ WF_vars(Construct \/ CallRead(PA) \/ ReadStep)

(***************************************************************************)
(* SpecLoop: main's use of the monitor.  a.log is named literally and the  *)
(* glob *.log is rescanned; monitor_files runs until it is interrupted or  *)
(* an exception leaves it.  The writer appends whole lines to a.log,       *)
(* empties and removes it; the clock advances.                             *)
(***************************************************************************)
LogGlob == Some(<<[pattern |-> "*.log", recursive |-> FALSE]>>)

LoopConfigs ==
    {Config(<<"a.log">>, GoodRules, LogGlob, TRUE, "monitor_files"),
     Config(<<"a.log">>, BadTemplateRules, LogGlob, TRUE, "monitor_files"),
     Config(<<"a.log">>, GoodRules, LogGlob, FALSE, "monitor_files")}

LoopWorlds ==
    {[p \in Paths |-> IF p = PA THEN f ELSE Absent] :
        f \in {Absent, File(<< >>), File(<<"a", NL>>)}}

\* the lines the writer appends: one that holds "a", one that holds the
\* two-byte character
LoopLines == {<<"a", NL>>, <<HI, LO, NL>>}

InitLoop == InitWith(LoopConfigs, LoopWorlds)

LoopWriter ==
    \/ Create(PA)
    \/ \E l \in LoopLines : AppendBytes(PA, l)
    \/ TruncateTo(PA, 0)
    \/ Delete(PA)

NextLoop ==
    \/ Construct
    \/ LoopStep
    \/ ReadStep
    \/ RdReadFails
    \/ Interrupt
    \/ LoopWriter
    \/ Tick

SpecLoop == InitLoop /\ [][NextLoop]_vars

(***************************************************************************)
(* SpecPatterns: a monitor with no files and up to MaxRules rules; the     *)
(* program calls check_patterns on lines of up to MaxLineLen characters.   *)
(***************************************************************************)
\* the sequences over S of length at most n
SeqsUpTo(S, n) == UNION {[1..k -> S] : k \in 0..n}

ValidPatterns == {"a", "E", "aa", "(?P<g>a)"}

PatternConfigs ==
    {Config(<< >>,
            [regex_patterns |-> Some(ps),
             tts_templates |-> Some([i \in 1..Len(ps) |-> "{line_number}"])],
            None, TRUE, "check_patterns") :
        ps \in SeqsUpTo(ValidPatterns, MaxRules)}

NoFiles == [p \in Paths |-> Absent]

Lines == SeqsUpTo({"a", EE, " "}, MaxLineLen)

InitPatterns == InitWith(PatternConfigs, {NoFiles})

NextPatterns ==
    \/ Construct
    \/ \E line \in Lines : CallCheck(line)

SpecPatterns == InitPatterns /\ [][NextPatterns]_vars

(***************************************************************************)
(* SpecCtor: LogMonitor(...) with any pattern list of up to MaxPatterns    *)
(* strings and any template list of up to MaxTemplates strings, either of  *)
(* them None as well, with or without a file argument, a.log present or    *)
(* not.                                                                    *)
(***************************************************************************)
\* a pattern that compiles and one that does not
CtorPatterns == {"a", "("}

OptionalLists(S, n) == {None} \cup {Some(l) : l \in SeqsUpTo(S, n)}

CtorConfigs ==
    {Config(fa, [regex_patterns |-> ps, tts_templates |-> ts], None, TRUE,
            "calls") :
        fa \in {<< >>, <<"a.log">>},
        ps \in OptionalLists(CtorPatterns, MaxPatterns),
        ts \in OptionalLists({"{line_number}"}, MaxTemplates)}

CtorWorlds ==
    {[p \in Paths |-> IF p = PA THEN f ELSE Absent] :
        f \in {Absent, File(<<"a", NL>>)}}

InitCtor == InitWith(CtorConfigs, CtorWorlds)

NextCtor == Construct

SpecCtor == InitCtor /\ [][NextCtor]_vars

(***************************************************************************)
(* SpecStartup: SpecCtor, and the program goes on to call check_patterns   *)
(* on the monitor it was given.                                            *)
(***************************************************************************)
StartupLines == {<<"a">>, <<EE>>}

NextStartup ==
    \/ Construct
    \/ \E line \in StartupLines : CallCheck(line)

SpecStartup == InitCtor /\ [][NextStartup]_vars

(***************************************************************************)
(* SpecDiscovery: a.log is named twice on the command line, under two      *)
(* spellings, and matched by the glob *.log, which also finds b.log once   *)
(* it is created; a second glob matches b.log again.  b.log may be a       *)
(* directory.  The writer creates both files and appends lines to them.    *)
(***************************************************************************)
OneRule == [regex_patterns |-> Some(<<"a">>),
            tts_templates |-> Some(<<"{line_number}">>)]

TwoGlobs == Some(<<[pattern |-> "*.log", recursive |-> FALSE],
                   [pattern |-> "b*.log", recursive |-> FALSE]>>)

Directory == [kind |-> "dir", data |-> << >>]

DiscoveryWorlds ==
    {[p \in Paths |-> IF p = PA THEN a ELSE b] :
        a \in {Absent, File(<<"a", NL>>)}, b \in {Absent, Directory}}

InitDiscovery ==
    InitWith({Config(<<"a.log", "./a.log">>, OneRule, TwoGlobs, TRUE,
                     "monitor_files")}, DiscoveryWorlds)

DiscoveryWriter ==
    \E p \in Paths :
        \/ Create(p)
        \/ AppendBytes(p, <<"a", NL>>)

NextDiscovery ==
    \/ Construct
    \/ LoopStep
    \/ ReadStep
    \/ DiscoveryWriter
    \/ Tick

SpecDiscovery == InitDiscovery /\ [][NextDiscovery]_vars

(***************************************************************************)
(* SpecFailures: a.log and b.log are both named on the command line; the   *)
(* writer appends lines to both and removes and re-creates a.log, and a    *)
(* read may fail with an I/O error.                                        *)
(***************************************************************************)
FailureWorlds ==
    {[p \in Paths |-> IF p = PA THEN a ELSE File(<< >>)] :
        a \in {Absent, File(<< >>)}}

InitFailures ==
    InitWith({Config(<<"a.log", "b.log">>, OneRule, None, TRUE,
                     "monitor_files")}, FailureWorlds)

FailuresWriter ==
    \/ \E p \in Paths : AppendBytes(p, <<"a", NL>>)
    \/ Create(PA)
    \/ Delete(PA)

NextFailures ==
    \/ Construct
    \/ LoopStep
    \/ ReadStep
    \/ RdReadFails
    \/ FailuresWriter

SpecFailures == InitFailures /\ [][NextFailures]_vars

(***************************************************************************)
(* SpecRefresh: the monitor loop without globs, with globs and a refresh   *)
(* interval of two polls, and with globs and a refresh interval of 0       *)
(* (which the constructor replaces by the poll interval).  The writer      *)
(* creates b.log and appends to a.log; the clock advances.                 *)
(***************************************************************************)
RefreshConfigs ==
    {Config(<<"a.log">>, OneRule, None, TRUE, "monitor_files"),
     Config(<<"a.log">>, OneRule, TwoGlobs, TRUE, "monitor_files"),
     [Config(<<"a.log">>, OneRule, TwoGlobs, TRUE, "monitor_files")
         EXCEPT !.pattern_refresh_interval = 0]}

InitRefresh == InitWith(RefreshConfigs, {NoFiles})

RefreshWriter ==
    \/ \E p \in Paths : Create(p)
    \/ AppendBytes(PA, <<"a", NL>>)

NextRefresh ==
    \/ Construct
    \/ LoopStep
    \/ ReadStep
    \/ RefreshWriter
    \/ Tick

SpecRefresh == InitRefresh /\ [][NextRefresh]_vars

(***************************************************************************)
(* What the claims speak of.                                               *)
(***************************************************************************)
Tracked == DOMAIN file_positions

\* the bytes of p written at or after the position at which it was registered
AppendedSince(p) == Slice(fs[p].data, reg[p].size, Size(p))

\* the bytes of p at or after its offset
Unread(p) == Slice(fs[p].data, file_positions[p], Size(p))

\* the separator-terminated lines of a byte string, as bytes
CompleteLines(bs) == LET segs == Split(bs) IN SubSeq(segs, 1, Len(segs) - 1)

\* UTF-8 text, of which the last character may be only half written
IsText(bs) ==
    \/ Decode(bs).ok
    \/ /\ Len(bs) > 0
       /\ bs[Len(bs)] = HI
       /\ Decode(SubSeq(bs, 1, Len(bs) - 1)).ok

HasNL(bs) == \E i \in 1..Len(bs) : bs[i] = NL

\* a line list as the bytes it was read from
LinesAsBytes(lines) == IF lines = << >> THEN << >> ELSE Encode(Join(lines) \o <<NL>>)

\* the step in which a read_new_content call that read bytes returns
ReadReturns == pc = "rd_update" /\ pc' # "rd_update"

\* C1: for a tracked file that has only grown, the lines returned so far are, in
\* order, the first of the complete lines appended after registration: none
\* twice, none skipped, none before its separator was written.
C1_ReturnedIsPrefixOfAppended ==
    \A p \in Tracked :
        grown[p] =>
            LET appended == CompleteLines(AppendedSince(p))
            IN  /\ Len(returned[p]) <= Len(appended)
                /\ \A i \in 1..Len(returned[p]) :
                       Encode(returned[p][i]) = appended[i]

\* two calls have returned lines, and a partial line is waiting
C1_Witness ==
    /\ pc = "idle"
    /\ new_lines # << >>
    /\ Len(returned[PA]) > Len(new_lines)
    /\ Unread(PA) # << >>

\* C6: whatever the writer appends between the steps of a call, the call stores
\* an offset between the offset it started from and the size its stat observed,
\* and the bytes it consumed are exactly the file's bytes of the lines it
\* returns, separators included: nothing is consumed without being returned,
\* nothing returned without being consumed.
C6_CallConsumesWhatItReturns ==
    [][(ReadReturns /\ grown[cur]) =>
          /\ file_positions'[cur] <= rd.current_size
          /\ file_positions'[cur] >= rd.last_position
          /\ Slice(fs[cur].data, rd.last_position, file_positions'[cur])
                 = LinesAsBytes(new_lines')]_vars

\* a call returned a line although the file grew between its stat and its read
C6_Witness ==
    /\ pc = "rd_update"
    /\ Size(PA) > rd.current_size
    /\ HasNL(rd.raw)
    /\ Len(rd.raw) = rd.bytes_to_read

\* C3 as claimed: when the unread bytes hold a separator and do not end with
\* one, the call returns the segments before the last separator and moves the
\* offset to just after it.  (The file is as the call's stat observed it, and
\* the unread bytes are UTF-8 text.)
C3_PartialLineBuffered ==
    [][(/\ ReadReturns
        /\ Size(cur) = rd.current_size
        /\ IsText(Unread(cur))
        /\ HasNL(Unread(cur))
        /\ ~EndsWithNL(Unread(cur))) =>
          LET complete == CompleteLines(Unread(cur))
          IN  /\ LinesAsBytes(new_lines') = LinesAsBytes(complete)
              /\ Len(new_lines') = Len(complete)
              /\ file_positions'[cur]
                     = file_positions[cur] + Len(LinesAsBytes(complete))]_vars

\* C4 as claimed: when the bytes read end inside a multi-byte character, the
\* complete lines before it are still returned and the offset stops after them,
\* so that the character is read whole by a later call.
C4_SplitCharacterKeepsLines ==
    [][(/\ ReadReturns
        /\ Len(rd.raw) > 0
        /\ rd.raw[Len(rd.raw)] = HI
        /\ Decode(SubSeq(rd.raw, 1, Len(rd.raw) - 1)).ok
        /\ HasNL(rd.raw)) =>
          LET complete == CompleteLines(rd.raw)
          IN  /\ LinesAsBytes(new_lines') = LinesAsBytes(complete)
              /\ file_positions'[cur]
                     = rd.last_position + Len(LinesAsBytes(complete))]_vars

\* C5 as claimed: once the writer has stopped, repeated calls return every
\* complete line, so that from some call on no complete line is left unread
\* (where the unread bytes are well-formed UTF-8).
C5_BacklogDrains ==
    <>[](\A p \in Tracked : Decode(Unread(p)).ok => ~HasNL(Unread(p)))

\* C2: for a file that existed with S bytes when it was registered, the offset
\* never lies below S, and a call that returns lines read them from a position
\* at or after S, whatever appends, truncations, removals and glob rescans came
\* between.
C2_NoReplayBelowRegisteredSize ==
    [][/\ \A p \in DOMAIN file_positions' :
              reg'[p].existed => file_positions'[p] >= reg'[p].size
       /\ (ReadReturns /\ new_lines' # << >> /\ reg[cur].existed) =>
              rd.last_position >= reg[cur].size]_vars

\* a file registered with content was truncated and grew again, the glob was
\* rescanned, and a call has returned a line of it
C2_Witness ==
    /\ pc = "lines"
    /\ new_lines # << >>
    /\ reg[cur].existed
    /\ reg[cur].size > 0
    /\ ~grown[cur]
    /\ next_pattern_refresh > pattern_refresh_interval

\* lit occurs somewhere in line
Found(lit, line) ==
    \E i \in 1..Len(line) :
        /\ i + Len(lit) - 1 <= Len(line)
        /\ \A j \in 1..Len(lit) : line[i + j - 1] = lit[j]

\* C7: check_patterns(line) returns one pair for each rule whose pattern is
\* found in the line and for no other rule, in rule order, each with its rule's
\* configuration and a match of the pattern that carries the rule's named
\* group.
C7_AllMatchingRulesInOrder ==
    (cfg.driver = "check_patterns" /\ new_lines # << >>) =>
        LET line == new_lines[1]
            hits == {i \in 1..Len(pattern_configs) :
                        Found(pattern_configs[i].pattern.lit, line)}
        IN  /\ Len(matching) = Cardinality(hits)
            /\ \A k \in 1..Len(matching) :
                   LET m == matching[k]
                       compiled == pattern_configs[m.rule].pattern
                   IN  /\ m.rule \in hits
                       /\ m.pattern_config = pattern_configs[m.rule]
                       /\ m.match_obj.found
                       /\ SubSeq(line, m.match_obj.start,
                                 m.match_obj.start + Len(compiled.lit) - 1)
                              = compiled.lit
                       /\ DOMAIN m.match_obj.groupdict
                              = {compiled.group} \ {""}
                       /\ \A g \in DOMAIN m.match_obj.groupdict :
                              m.match_obj.groupdict[g] = compiled.lit
            /\ \A k \in 1..(Len(matching) - 1) :
                   matching[k].rule < matching[k + 1].rule

\* a line matched the first and the third of three rules, the third with a
\* named group, and not the second
C7_Witness ==
    /\ cfg.driver = "check_patterns"
    /\ Len(pattern_configs) = 3
    /\ Len(matching) = 2
    /\ matching[1].rule = 1
    /\ matching[2].rule = 3
    /\ DOMAIN matching[2].match_obj.groupdict # {}

\* the alert of the match at hand fails to format its template
TemplateFails ==
    /\ pc = "alert"
    /\ LET m == Head(matching)
       IN  Format(m.pattern_config.template,
                  TemplateVars(cur, file_positions[cur] + line_num,
                               new_lines[line_num], m.match_obj)).raised

\* C8 as claimed: when the template of a match names a variable the alert does
\* not have, the alert is still made and the loop goes on to the next match or
\* line.
C8_TemplateFallback ==
    [][(TemplateFails /\ (pc' # pc \/ matching' # matching)) =>
          /\ pc' \in {"alert", "lines", "stopped"}
          /\ pc' # "stopped" => Len(alerts') = Len(alerts) + 1]_vars

\* C9 as claimed: the loop leaves Running only when it is interrupted.
C9_OnlyInterruptEndsLoop ==
    [][(Running /\ ~Running') => pc' = "stopped"]_vars

\* C10 as claimed: a constructor given pattern and template lists of different
\* lengths raises, and has registered and examined no file.
C10_MismatchedCountsFail ==
    (/\ pc # "new"
     /\ ~cfg.regex_patterns.is_none
     /\ ~cfg.tts_templates.is_none
     /\ Len(cfg.regex_patterns.v) # Len(cfg.tts_templates.v)) =>
        /\ pc = "ctor_error"
        /\ files = << >>
        /\ touched = {}

\* positions of the configured patterns that do not compile
Malformed ==
    LET ps == OrEmpty(cfg.regex_patterns)
    IN  {i \in 1..Len(ps) : ps[i] \notin ValidPatterns}

\* the constructor ends in this step
Constructed == pc = "new" /\ pc' # "new"

\* every pattern before position i has a template
TemplatesBefore(i) ==
    i = 1 \/ (~cfg.tts_templates.is_none /\ Len(cfg.tts_templates.v) >= i - 1)

\* C11 as claimed: a constructor given a malformed pattern raises the compile
\* diagnostic for the first malformed pattern, whatever the template list.
C11_MalformedPatternNamed ==
    [][(Constructed /\ Malformed # {}) =>
          /\ pc' = "ctor_error"
          /\ error'.at = "compile"
          /\ error'.index = SetMin(Malformed)]_vars

\* C11: a constructor given a malformed pattern raises before any file is
\* registered or examined; when every pattern before the first malformed one
\* has a template, the error is the compile diagnostic and carries that
\* pattern's position.  After construction the rule list never changes.
C11_FirstMalformedPatternNamed ==
    [][/\ (Constructed /\ Malformed # {}) =>
             /\ pc' = "ctor_error"
             /\ files' = << >>
             /\ file_positions' = << >>
             /\ touched' = {}
             /\ pattern_configs' = << >>
             /\ TemplatesBefore(SetMin(Malformed)) =>
                    /\ error'.at = "compile"
                    /\ error'.index = SetMin(Malformed)
       /\ pc # "new" => pattern_configs' = pattern_configs]_vars

\* the constructor raised for a malformed second pattern, a.log being there
C11_Witness ==
    /\ pc = "ctor_error"
    /\ error.at = "compile"
    /\ error.index = 2
    /\ cfg.files # << >>
    /\ Exists(PA)

\* C12 as claimed: the error the constructor raises for a malformed pattern is
\* the regex engine's compile error, re.error.
C12_CompileErrorIsReError ==
    (pc = "ctor_error" /\ error.at = "compile") => error.type = "re.error"

\* C13 as claimed: a constructor given None for the patterns and None for the
\* templates raises TypeError; no monitor is created.
C13_NoneListsRaise ==
    (pc # "new" /\ cfg.regex_patterns.is_none /\ cfg.tts_templates.is_none) =>
        /\ pc = "ctor_error"
        /\ error.type = "TypeError"

\* the path arguments of the model
PathArgs == {"a.log", "./a.log", "b.log"}

\* C14: every absolute path is tracked at most once: self.files has no
\* duplicates and lists exactly the keys of the two dictionaries.  Registering
\* a tracked path again changes nothing, and the constructor and every refresh
\* leave the offset and recorded size of each path already tracked, and the
\* list's existing entries, as they were.
C14_RegistrationIdempotent ==
    [][/\ \A i, j \in 1..Len(files') : files'[i] = files'[j] => i = j
       /\ {files'[i] : i \in 1..Len(files')} = DOMAIN file_positions'
       /\ DOMAIN file_sizes' = DOMAIN file_positions'
       /\ \A arg \in PathArgs :
              AbsPath(arg) \in DOMAIN file_positions' =>
                  register_file([files |-> files', pos |-> file_positions',
                                 sizes |-> file_sizes'], arg)
                      = [files |-> files', pos |-> file_positions',
                         sizes |-> file_sizes']
       /\ pc = "refresh" =>
              /\ \A p \in DOMAIN file_positions :
                     /\ file_positions'[p] = file_positions[p]
                     /\ file_sizes'[p] = file_sizes[p]
              /\ SubSeq(files', 1, Len(files)) = files]_vars

\* a rescan has just run with both files tracked, b.log found by the globs,
\* and a.log holding bytes not yet read
C14_Witness ==
    /\ pc = "next_file"
    /\ todo = files
    /\ files = <<PA, PB>>
    /\ clock > 0
    /\ next_pattern_refresh = clock + pattern_refresh_interval
    /\ file_positions[PA] < Size(PA)

\* where a read_new_content call returns to
AfterRead == IF cfg.driver = "monitor_files" THEN "lines" ELSE "idle"

\* C15: when the stat of a call finds the file no larger than the offset, the
\* call returns the empty list there and then: it raises nothing, goes on to no
\* read, and leaves the offset as it was.
C15_NothingNewReturnsEmpty ==
    [][(/\ pc = "rd_stat"
        /\ pc' \notin {"rd_stat", "stopped"}
        /\ Exists(cur)
        /\ Size(cur) <= file_positions[cur]) =>
          /\ pc' = AfterRead
          /\ new_lines' = << >>
          /\ rd' = NoRead
          /\ file_positions' = file_positions]_vars

\* a call is at its stat, the file having been cut to below the offset and
\* written to again
C15_Witness ==
    /\ pc = "rd_stat"
    /\ Exists(cur)
    /\ 0 < Size(cur)
    /\ Size(cur) < file_positions[cur]

\* the stat of a call finds the file smaller than the offset
TruncationDetected ==
    /\ pc = "rd_stat"
    /\ pc' \notin {"rd_stat", "stopped"}
    /\ Exists(cur)
    /\ Size(cur) < file_positions[cur]

\* C16 as claimed: an offset decreases only when a truncation is detected, and
\* a detected truncation resets the offset to 0.
C16_TruncationResetsOffset ==
    [][/\ \A p \in DOMAIN file_positions :
              file_positions'[p] < file_positions[p] =>
                  (TruncationDetected /\ p = cur)
       /\ TruncationDetected => file_positions'[cur] = 0]_vars

\* C17 as claimed: no offset exceeds the recorded size, and every call that
\* stats the file records the size its stat observed, whether or not it finds
\* new content; so both hold at the end of the cycle.
C17_SizeRecordedEveryPoll ==
    [][/\ \A p \in DOMAIN file_positions' :
              file_positions'[p] <= file_sizes'[p]
       /\ (pc = "rd_stat" /\ pc' = AfterRead /\ Exists(cur)) =>
              file_sizes'[cur] = Size(cur)
       /\ (pc = "rd_update" /\ pc' = AfterRead) =>
              file_sizes'[cur] = rd.current_size]_vars

AlertTaken ==
    /\ pc = "alert"
    /\ pc' # "stopped"
    /\ <<pc, matching, line_num>>' # <<pc, matching, line_num>>

\* C19 as claimed: the line_number of an alert is the number of lines returned
\* for the file since it was registered, up to and including the alert's line
\* (for a file that has only grown since, all of whose returned lines are in
\* the history).
C19_LineNumberCountsLines ==
    [][(AlertTaken /\ grown[cur] /\ Len(alerts') = Len(alerts) + 1) =>
          alerts'[Len(alerts')].line_number
              = Len(returned[cur]) - Len(new_lines) + line_num]_vars

\* C20 as claimed: a non-blank line queues one alert for each rule it matches;
\* each queued alert makes one notification attempt and, whatever the
\* response, the loop goes on to the next match or line without raising;
\* nothing else makes an attempt.
C20_OneAttemptPerMatch ==
    [][/\ (pc = "lines" /\ pc' = "alert") =>
              matching' = check_patterns(pattern_configs, new_lines[line_num])
       /\ AlertTaken =>
              /\ Len(alerts') = Len(alerts) + 1
              /\ SubSeq(alerts', 1, Len(alerts)) = alerts
              /\ alerts'[Len(alerts')].path = cur
              /\ alerts'[Len(alerts')].line = new_lines[line_num]
              /\ alerts'[Len(alerts')].rule = Head(matching).rule
              /\ IF Len(matching) > 1
                 THEN pc' = "alert" /\ matching' = Tail(matching)
                                   /\ line_num' = line_num
                 ELSE pc' = "lines" /\ line_num' = line_num + 1
       /\ ~AlertTaken => alerts' = alerts]_vars

\* bs holds a byte that no UTF-8 decoder accepts where it stands: a
\* continuation byte without its lead byte, or a lead byte followed by
\* something else than its continuation byte
HasBadByte(bs) ==
    \E i \in 1..Len(bs) :
        \/ bs[i] = LO /\ (i = 1 \/ bs[i - 1] # HI)
        \/ bs[i] = HI /\ i < Len(bs) /\ bs[i + 1] # LO

\* C21 as claimed: a call whose chunk holds a malformed byte and a separator
\* still returns the chunk's complete lines and moves the offset forward.
C21_MalformedByteSkipped ==
    [][(ReadReturns /\ HasBadByte(rd.raw) /\ HasNL(rd.raw)) =>
          /\ Len(new_lines') = Len(CompleteLines(rd.raw))
          /\ file_positions'[cur] > rd.last_position]_vars

\* a read_new_content call ends without having read: the file is missing at
\* the existence check or at the stat, or open, seek or read raises
ReadFails ==
    /\ \/ pc \in {"rd_exists", "rd_stat"} /\ ~Exists(cur)
       \/ pc = "rd_read"
    /\ pc' \notin {pc, "rd_update", "stopped"}

\* C22: a call that fails returns the empty list to its caller, raising
\* nothing, with every offset as it was, so that a later call starts from the
\* same position; the files of the cycle still to be read stay so, and the loop
\* goes from an empty batch to the next of them.
C22_FailedReadKeepsOffset ==
    [][/\ ReadFails =>
              /\ pc' = AfterRead
              /\ new_lines' = << >>
              /\ file_positions' = file_positions
              /\ todo' = todo
       /\ (pc = "lines" /\ new_lines = << >> /\ pc' \notin {pc, "stopped"}) =>
              pc' = "next_file" /\ todo' = todo
       /\ (pc = "next_file" /\ todo # << >> /\ pc' \notin {pc, "stopped"}) =>
              pc' = "rd_exists" /\ cur' = Head(todo) /\ todo' = Tail(todo)]_vars

\* a.log, with a complete line unread, was removed between the stat and the
\* read of its call; b.log is still to be read in this cycle
C22_Witness ==
    /\ pc = "rd_read"
    /\ cur = PA
    /\ ~Exists(PA)
    /\ rd.current_size > rd.last_position
    /\ todo = <<PB>>
    /\ Size(PB) > file_positions[PB]

\* the paths named on the command line
LiteralPaths == {AbsPath(cfg.files[i]) : i \in 1..Len(cfg.files)}

\* C23: the refresh of the constructor and that of every cycle, whether it
\* fires or not, keeps every tracked path tracked with its offset and
\* recorded size; a path it adds (one not named literally) is a file,
\* not a directory, and gets that file's size at this moment as offset and as
\* recorded size; and no call returns lines read from below the size a path
\* had when it was added.
C23_RefreshKeepsTrackedAddsAtEnd ==
    [][/\ pc \in {"new", "refresh"} =>
              /\ \A p \in DOMAIN file_positions :
                     /\ p \in DOMAIN file_positions'
                     /\ file_positions'[p] = file_positions[p]
                     /\ file_sizes'[p] = file_sizes[p]
              /\ \A p \in (DOMAIN file_positions' \ DOMAIN file_positions)
                                \ LiteralPaths :
                     /\ fs[p].kind = "file"
                     /\ file_positions'[p] = Len(fs[p].data)
                     /\ file_sizes'[p] = Len(fs[p].data)
                     /\ reg'[p].size = Len(fs[p].data)
       /\ (ReadReturns /\ new_lines' # << >>) =>
              rd.last_position >= reg[cur].size]_vars

\* b.log was written to and then found by a rescan, a.log staying tracked
C23_Witness ==
    /\ pc = "next_file"
    /\ todo = files
    /\ files = <<PA, PB>>
    /\ clock > 0
    /\ next_pattern_refresh = clock + pattern_refresh_interval
    /\ reg[PB].size > 0
    /\ file_positions[PB] = reg[PB].size

\* the refresh_patterns call of a cycle is made in this step
RefreshCalled == pc = "refresh" /\ pc' = "next_file"

\* C24: without glob specs a refresh changes nothing of the monitor; with
\* them, a refresh of the loop made before the deadline changes neither the
\* tracked files nor the deadline, and one made at or after it, like the
\* forced one of the constructor, sets the deadline to the clock's value plus
\* the refresh interval, which is at least one interval after the deadline it
\* replaces.
C24_RefreshGatedByDeadline ==
    [][/\ (RefreshCalled /\ cfg.pattern_specs.is_none) =>
              monitor_vars' = monitor_vars
       /\ (RefreshCalled /\ ~cfg.pattern_specs.is_none
              /\ clock < next_pattern_refresh) =>
              monitor_vars' = monitor_vars
       /\ (RefreshCalled /\ ~cfg.pattern_specs.is_none
              /\ clock >= next_pattern_refresh) =>
              /\ next_pattern_refresh' = clock + pattern_refresh_interval
              /\ next_pattern_refresh'
                     >= next_pattern_refresh + pattern_refresh_interval
       /\ (Constructed /\ pc' # "ctor_error" /\ ~cfg.pattern_specs.is_none) =>
              next_pattern_refresh' = clock + pattern_refresh_interval
       /\ (Constructed /\ cfg.pattern_specs.is_none) =>
              /\ next_pattern_refresh' = clock
              /\ DOMAIN file_positions' = LiteralPaths]_vars

\* with an interval of two polls, the refresh of the first cycle was skipped
\* and a later one has just fired and found b.log
C24_Witness ==
    /\ pc = "next_file"
    /\ todo = files
    /\ ~cfg.pattern_specs.is_none
    /\ pattern_refresh_interval = 2
    /\ clock >= 2
    /\ next_pattern_refresh = clock + pattern_refresh_interval
    /\ PB \in Tracked

\* a line whose bytes the offset has passed still has alerts to be made
PendingAlerts ==
    \/ pc = "alert"
    \/ /\ pc = "lines"
       /\ \E k \in line_num..Len(new_lines) :
              /\ Strip(new_lines[k]) # << >>
              /\ check_patterns(pattern_configs, new_lines[k]) # << >>

\* C25 as claimed: the interruption stops the loop only when no consumed line
\* still has alerts to be made; and once stopped, the program reads, refreshes
\* and alerts no more.
C25_StopsBetweenCycles ==
    [][/\ (Running /\ pc' = "stopped") => ~PendingAlerts
       /\ pc = "stopped" =>
              /\ pc' = "stopped"
              /\ monitor_vars' = monitor_vars
              /\ alerts' = alerts
              /\ touched' = touched]_vars

\* C26: a call that changes the offset moves it forward, by no more than the
\* per-call limit; and the offset of a tracked file that has only grown is the
\* one it was registered with or the position just after a separator byte.
C26_OffsetAfterSeparator ==
    [][/\ (ReadReturns /\ file_positions'[cur] # file_positions[cur]) =>
              /\ file_positions'[cur] > file_positions[cur]
              /\ file_positions'[cur] <= file_positions[cur] + CHUNK
       /\ \A p \in DOMAIN file_positions' :
              grown'[p] =>
                  \/ file_positions'[p] = reg'[p].size
                  \/ /\ file_positions'[p] <= Len(fs'[p].data)
                     /\ fs'[p].data[file_positions'[p]] = NL]_vars

\* a call has moved the offset to just after a separator, short of the
\* two-byte character that follows it
C26_Witness ==
    /\ pc = "idle"
    /\ file_positions[PA] > reg[PA].size
    /\ Unread(PA) # << >>
    /\ Unread(PA)[1] = HI
    /\ fs[PA].data[file_positions[PA]] = NL

====
